---- MODULE Spec2Model ----
(***************************************************************************)
(* Authentication / session core of fastapi-blueprint: password            *)
(* credentials, signed access/refresh tokens, rotation, the Redis token    *)
(* blacklist and the access-control guard.                                  *)
(*                                                                         *)
(* Time is counted in ticks, TicksPerSec ticks to a second, because the    *)
(* code mixes datetime.now() (sub-second) with unix-second claims.         *)
(* jwt.encode/jwt.decode (python-jose) are modelled as HS256 signing of    *)
(* the dumped payload and signature + exp verification; bcrypt as a salted *)
(* deterministic digest.                                                   *)
(***************************************************************************)
EXTENDS Integers, Sequences, FiniteSets, TLC

\* ---------------------------------------------------------------- bounds
TicksPerSec == 2
MaxTime == 4
AccessTTL == 1
RefreshTTL == 1
MaxUsers == 2
MaxIssued == 4

\* ------------------------------------------------------ program constants
PASSWORD_MIN_LENGTH == 8
BCRYPT_MAX_BYTES == 72
DEFAULT_USER_ROLE == "user"
JWT_SECRET_KEY == "secret"

None == "None"
Procs == {1, 2}
Emails == {"a@x.com", "b@x.com"}
Passwords == {"Secret123!", "Other4567!", "long73"}
PwBytes == [p \in Passwords |-> IF p = "long73" THEN 73 ELSE 10]
Salts == {"s1", "s2"}
RoleNames == <<"admin", "user">>
AllRoles == {RoleNames[i] : i \in 1..Len(RoleNames)}
Jtis == {"j1", "j2"}

\* ---------------------------------------------------------------- password
validate_password(password) ==
  PwBytes[password] >= PASSWORD_MIN_LENGTH /\ PwBytes[password] <= BCRYPT_MAX_BYTES

\* bcrypt.hashpw(password, salt): the salt is part of the hash string
hashpw(password, salt) == [salt |-> salt, digest |-> <<salt, password>>]

\* a hash of the password the account was created with, whatever is passed
get_password_hash_fixed(password, salt) ==
  [err |-> IF validate_password(password) THEN "" ELSE "ValueError",
   hash |-> hashpw("Secret123!", salt)]

\* get_password_hash raises ValueError when validate_password fails
get_password_hash(password, salt) ==
  [err |-> IF validate_password(password) THEN "" ELSE "ValueError",
   hash |-> hashpw(password, salt)]

\* a check that accepts every password
verify_password_always(plain_password, hashed_password) == TRUE

\* a check that compares salts only
verify_password_saltonly(plain_password, hashed_password) ==
  IF PwBytes[plain_password] > BCRYPT_MAX_BYTES THEN FALSE
  ELSE hashpw(plain_password, hashed_password.salt).salt = hashed_password.salt

\* bcrypt.checkpw re-hashes with the salt stored in the hash; a password
\* over 72 bytes makes it raise ValueError, which verify_password turns
\* into False
verify_password(plain_password, hashed_password) ==
  IF PwBytes[plain_password] > BCRYPT_MAX_BYTES THEN FALSE
  ELSE hashpw(plain_password, hashed_password.salt) = hashed_password

\* ------------------------------------------------------------------ tokens
RoleRank(r) == CHOOSE i \in 1..Len(RoleNames) : RoleNames[i] = r

RECURSIVE SortedSeq(_)
SortedSeq(S) ==
  IF S = {} THEN <<>>
  ELSE LET m == CHOOSE x \in S : \A y \in S : RoleRank(x) <= RoleRank(y)
       IN <<m>> \o SortedSeq(S \ {m})

\* the role list kept as given
normalize_roles_asgiven(v) == v

\* TokenPayload.normalize_roles: sorted({r for r in v if r})
normalize_roles(v) == SortedSeq({v[i] : i \in 1..Len(v)} \ {""})

\* [role.name for role in user.roles]: the relationship list in load order
role_names(roleSet) == SortedSeq(roleSet)

\* str(user.id) and int(payload.sub)
StrOf == <<"1", "2", "3", "4", "5", "6", "7", "8", "9">>
str(n) == StrOf[n]
int(s) ==
  IF \E i \in 1..Len(StrOf) : StrOf[i] = s
  THEN CHOOSE i \in 1..Len(StrOf) : StrOf[i] = s
  ELSE 0 - 1

TokenPayload(sub, type, iat, exp, email, roles, jti) ==
  [sub |-> sub, type |-> type, iat |-> iat, exp |-> exp,
   email |-> email, roles |-> normalize_roles(roles), jti |-> jti]

\* jwt.encode(payload, key, HS256): deterministic in payload and key
encode(payload, key) == [claims |-> payload, sig |-> key]

create_access_token(sub, email, roles, nowTicks) ==
  LET issued_at == nowTicks \div TicksPerSec
  IN encode(TokenPayload(sub, "access", issued_at, issued_at + AccessTTL,
                         email, roles, None), JWT_SECRET_KEY)

create_refresh_token(sub, nowTicks) ==
  LET issued_at == nowTicks \div TicksPerSec
  IN encode(TokenPayload(sub, "refresh", issued_at, issued_at + RefreshTTL,
                         None, <<>>, None), JWT_SECRET_KEY)

\* tokens signed with the shared secret by another issuer of the same
\* payload schema; they carry a jti
ForeignTokens ==
  { encode(TokenPayload("1", "refresh", 0, RefreshTTL, None, <<>>, "j1"), JWT_SECRET_KEY),
    encode(TokenPayload("1", "access", 0, AccessTTL, "a@x.com", <<"admin">>, "j2"), JWT_SECRET_KEY),
    encode(TokenPayload("9", "access", 0, AccessTTL, None, <<>>, None), JWT_SECRET_KEY),
    encode(TokenPayload("x", "access", 0, AccessTTL, None, <<>>, None), JWT_SECRET_KEY) }

Garbage == encode(TokenPayload("1", "access", 0, AccessTTL, None, <<>>, None), "forged")
NoToken == encode(TokenPayload("", "access", 0, 0, None, <<>>, None), "")

\* decode_token: jose verifies the signature, then exp (expired once the
\* current unix second is past exp), then the payload is validated
decode_token(token, nowTicks) ==
  [err |-> IF token.sig # JWT_SECRET_KEY THEN "JWTError"
           ELSE IF nowTicks \div TicksPerSec > token.claims.exp
                THEN "ExpiredSignatureError"
                ELSE "",
   claims |-> [token.claims EXCEPT !.roles = normalize_roles(@)]]

\* a call decode_token(token, **kwargs): Python raises TypeError for a
\* keyword the signature does not have
decode_token_params == {"token"}
decode_token_call(token, kwargs, nowTicks) ==
  IF ~(kwargs \subseteq decode_token_params)
  THEN [decode_token(token, nowTicks) EXCEPT !.err = "TypeError"]
  ELSE decode_token(token, nowTicks)

\* the kind check left out
assert_token_type_nocheck(payload, expected) == TRUE

\* assert_token_type raises JWTError on mismatch
assert_token_type(payload, expected) == payload.type = expected

\* TokenPayload.is_expired / expires_at (in ticks)
is_expired(payload, nowTicks) == nowTicks \div TicksPerSec >= payload.exp
expires_at(payload) == payload.exp * TicksPerSec

\* ------------------------------------------------------- token blacklist
\* the client is usable when CACHE_ENABLED and cache_client is set ("ok");
\* "error" is a client whose operations raise
CacheModes == {"ok", "disabled", "error"}

\* Redis EXISTS on a key written by SETEX: present until its expiry tick
key_exists(st, jti, nowTicks) == st[jti] > nowTicks

\* a lookup that reports every token revoked when the client raises
is_token_blacklisted_failclosed(jti, mode, st, nowTicks) ==
  IF mode = "disabled" THEN FALSE
  ELSE IF mode = "error" THEN TRUE
  ELSE key_exists(st, jti, nowTicks)

is_token_blacklisted(jti, mode, st, nowTicks) ==
  IF mode = "disabled" THEN FALSE
  ELSE IF mode = "error" THEN FALSE
  ELSE key_exists(st, jti, nowTicks)

\* the remaining lifetime rounded up to whole seconds
ttl_seconds_ceil(expTicks, nowTicks) ==
  IF expTicks >= nowTicks THEN (expTicks - nowTicks + TicksPerSec - 1) \div TicksPerSec
  ELSE 0 - ((nowTicks - expTicks) \div TicksPerSec)

\* int((expires_at - now).total_seconds()): truncation toward zero
ttl_seconds(expTicks, nowTicks) ==
  IF expTicks >= nowTicks THEN (expTicks - nowTicks) \div TicksPerSec
  ELSE 0 - ((nowTicks - expTicks) \div TicksPerSec)

\* blacklist_token: the store after the call
blacklist_token(jti, expTicks, mode, st, nowTicks) ==
  IF mode = "disabled" THEN st
  ELSE IF mode = "error" THEN st
  ELSE IF ttl_seconds(expTicks, nowTicks) > 0
       THEN [st EXCEPT ![jti] = nowTicks + ttl_seconds(expTicks, nowTicks) * TicksPerSec]
       ELSE st

\* ------------------------------------------------------------------ state
VARIABLES
  now,        \* wall clock, in ticks
  users,      \* committed rows of table users, by id
  nextId,     \* next value of the users id sequence
  roleTable,  \* committed role names of table roles
  store,      \* Redis: expiry tick of key token_blacklist:<jti>, 0 = no key
  cache,      \* state of the Redis client, a member of CacheModes
  issued,     \* tokens returned by login_user / refresh_access_token
  proc,       \* a request in flight per worker: position and locals
  last,       \* the call that has just returned, with its outcome
  regPw,      \* per email: password registered by create_user, unchanged since
  pwHist,     \* per email: the password set last and the one it replaced
  consumed,   \* the refresh token refresh_access_token last returned a pair for
  loggedOut,  \* the cookie the logout handler was last called with
  revoked,    \* per jti: exp (unix seconds) of the unexpired token blacklist_token
              \* was called for with the client usable, -1 if none
  entryExp    \* per jti: exp (unix seconds) of the token whose revocation wrote
              \* the entry of the store, -1 if none was written

vars == <<now, users, nextId, roleTable, store, cache, issued, proc, last,
          regPw, pwHist, consumed, loggedOut, revoked, entryExp>>

NoHash == hashpw("Secret123!", "s1")
NoUser == [present |-> FALSE, email |-> None, hashed_password |-> NoHash,
           is_active |-> FALSE, is_superuser |-> FALSE, roles |-> {},
           last_login |-> 0 - 1]

\* User(email=..., hashed_password=..., is_active=True, is_superuser=False)
User(email, hashed_password, roles) ==
  [present |-> TRUE, email |-> email, hashed_password |-> hashed_password,
   is_active |-> TRUE, is_superuser |-> FALSE, roles |-> roles,
   last_login |-> 0 - 1]

UserIds == 1..MaxUsers

\* repository reads see committed rows
get_by_id(tbl, id) == IF id \in DOMAIN tbl THEN tbl[id] ELSE NoUser
id_by_email(tbl, email) ==
  IF \E i \in DOMAIN tbl : tbl[i].present /\ tbl[i].email = email
  THEN CHOOSE i \in DOMAIN tbl : tbl[i].present /\ tbl[i].email = email
  ELSE 0
get_by_email(tbl, email) == get_by_id(tbl, id_by_email(tbl, email))

Presentable == issued \cup ForeignTokens \cup {Garbage, NoToken}

IdleProc == [pc |-> "idle", tok |-> NoToken, email |-> None, pw |-> "Secret123!",
             salt |-> "s1", uid |-> 0, uroles |-> {}, conc |-> FALSE,
             before |-> FALSE, out |-> FALSE, pendRole |-> FALSE,
             pendUser |-> FALSE, args |-> <<>>]

NoSnap == [nowS |-> 0, expired |-> FALSE, revoked |-> FALSE, exists |-> FALSE,
           active |-> FALSE, dbRoles |-> {}, reg |-> None, minted |-> {},
           loginChanged |-> FALSE, before |-> FALSE, conc |-> FALSE,
           out |-> FALSE, cur |-> None, prev |-> None, kwargs |-> {},
           sub |-> "", rolesIn |-> <<>>, payload |-> NoToken.claims,
           roleNew |-> FALSE, calls |-> <<>>, args |-> <<>>, committed |-> FALSE,
           max_size |-> 0]

Call(op, tok, email, pw, roles, status, code, detail, uid, snap) ==
  [op |-> op, tok |-> tok, email |-> email, pw |-> pw, roles |-> roles,
   status |-> status, code |-> code, detail |-> detail, uid |-> uid,
   snap |-> snap]

NoCall == Call("none", NoToken, None, "Secret123!", {}, "", 0, "", 0, NoSnap)

Init ==
  /\ now = 0
  /\ users = [i \in UserIds |-> NoUser]
  /\ nextId = 1
  /\ roleTable = {"admin"}
  /\ store = [j \in Jtis |-> 0]
  /\ cache \in {"ok", "disabled"}
  /\ issued = {}
  /\ proc = [p \in Procs |-> IdleProc]
  /\ last = NoCall
  /\ regPw = [e \in Emails |-> None]
  /\ pwHist = [e \in Emails |-> [cur |-> None, prev |-> None]]
  /\ consumed = NoToken
  /\ loggedOut = NoToken
  /\ revoked = [j \in Jtis |-> 0 - 1]
  /\ entryExp = [j \in Jtis |-> 0 - 1]

\* blacklist_token(jti, exp) is being called: remember it when the client is
\* usable and the token unexpired
NoteRevoke(jti, exp) ==
  IF cache = "ok" /\ now \div TicksPerSec < exp
  THEN [revoked EXCEPT ![jti] = exp]
  ELSE revoked

\* blacklist_token(jti, exp) left the store as st: remember whose entry it wrote
NoteEntry(jti, exp, st) ==
  IF st[jti] # store[jti] THEN [entryExp EXCEPT ![jti] = exp] ELSE entryExp

\* ------------------------------------------------------------ environment
Tick ==
  /\ now < MaxTime
  /\ now' = now + 1
  /\ last' = NoCall
  /\ UNCHANGED <<users, nextId, roleTable, store, cache, issued, proc, regPw, pwHist, consumed, loggedOut, revoked, entryExp>>

\* the Redis connection drops / comes back
CacheFail ==
  /\ cache = "ok"
  /\ cache' = "error"
  /\ last' = NoCall
  /\ UNCHANGED <<now, users, nextId, roleTable, store, issued, proc, regPw, pwHist, consumed, loggedOut, revoked, entryExp>>

CacheRecover ==
  /\ cache = "error"
  /\ cache' = "ok"
  /\ last' = NoCall
  /\ UNCHANGED <<now, users, nextId, roleTable, store, issued, proc, regPw, pwHist, consumed, loggedOut, revoked, entryExp>>

\* the role collaborator of spec 4.4: assignRole / revokeRole on a stored user
assignRole(u, r) ==
  /\ users[u].present /\ r \in roleTable /\ r \notin users[u].roles
  /\ users' = [users EXCEPT ![u].roles = @ \cup {r}]
  /\ last' = NoCall
  /\ UNCHANGED <<now, nextId, roleTable, store, cache, issued, proc, regPw, pwHist, consumed, loggedOut, revoked, entryExp>>

revokeRole(u, r) ==
  /\ users[u].present /\ r \in users[u].roles
  /\ users' = [users EXCEPT ![u].roles = @ \ {r}]
  /\ last' = NoCall
  /\ UNCHANGED <<now, nextId, roleTable, store, cache, issued, proc, regPw, pwHist, consumed, loggedOut, revoked, entryExp>>

\* an administrator disables the account
deactivateUser(u) ==
  /\ users[u].present /\ users[u].is_active
  /\ users' = [users EXCEPT ![u].is_active = FALSE]
  /\ last' = NoCall
  /\ UNCHANGED <<now, nextId, roleTable, store, cache, issued, proc, regPw, pwHist, consumed, loggedOut, revoked, entryExp>>

\* ------------------------------------------------------------ create_user
InFlight(p) == proc[p].pc # "idle"
Creating == {p \in Procs : proc[p].pc \in {"cu_check", "cu_role", "cu_role_flush", "cu_flush", "cu_commit"}}

\* register handler entered: create_user(email, password, username=None);
\* salt is what bcrypt.gensalt will return to this call
CreateBegin(p, email, pw, salt) ==
  /\ proc[p].pc = "idle"
  /\ nextId + Cardinality(Creating) <= MaxUsers
  /\ proc' = [proc EXCEPT ![p] = [IdleProc EXCEPT !.pc = "cu_check", !.email = email, !.pw = pw,
                                                        !.salt = salt,
                                                        !.before = get_by_email(users, email).present]]
  /\ last' = NoCall
  /\ UNCHANGED <<now, users, nextId, roleTable, store, cache, issued, regPw, pwHist, consumed, loggedOut, revoked, entryExp>>

\* a request's transaction is rolled back and the call returns `status`
CreateFail(p, status, code) ==
  /\ proc' = [proc EXCEPT ![p] = IdleProc]
  /\ last' = Call("create_user", NoToken, proc[p].email, proc[p].pw, {}, status, code, "",
                  0, [NoSnap EXCEPT !.exists = get_by_email(users, proc[p].email).present,
                                    !.before = proc[p].before])

\* create_user without the lookup of the email
CreateCheck_nolookup(p) ==
  /\ proc[p].pc = "cu_check"
  /\ IF get_password_hash(proc[p].pw, proc[p].salt).err # ""
     THEN CreateFail(p, "ValueError", 500)
     ELSE /\ proc' = [proc EXCEPT ![p].pc = "cu_role"]
          /\ last' = NoCall
  /\ UNCHANGED <<now, users, nextId, roleTable, store, cache, issued, regPw, pwHist, consumed, loggedOut, revoked, entryExp>>

\* existing = get_by_email(email); hash the password
CreateCheck(p) ==
  /\ proc[p].pc = "cu_check"
  /\ IF get_by_email(users, proc[p].email).present
     THEN CreateFail(p, "UserAlreadyExistsError", 400)
     ELSE IF get_password_hash(proc[p].pw, proc[p].salt).err # ""
          THEN CreateFail(p, "ValueError", 500)
          ELSE /\ proc' = [proc EXCEPT ![p].pc = "cu_role"]
               /\ last' = NoCall
  /\ UNCHANGED <<now, users, nextId, roleTable, store, cache, issued, regPw, pwHist, consumed, loggedOut, revoked, entryExp>>

\* get_or_create: existing = get_by_name(name)
CreateRoleLookup(p) ==
  /\ proc[p].pc = "cu_role"
  /\ proc' = [proc EXCEPT ![p].pc = IF DEFAULT_USER_ROLE \in roleTable
                                    THEN "cu_flush" ELSE "cu_role_flush"]
  /\ last' = NoCall
  /\ UNCHANGED <<now, users, nextId, roleTable, store, cache, issued, regPw, pwHist, consumed, loggedOut, revoked, entryExp>>

\* get_or_create: add(role); begin_nested(); flush().  The role was added
\* before begin_nested(), which flushes what is pending before it sets the
\* savepoint, so the INSERT runs in the request's transaction.  The unique
\* index makes it wait for a concurrent uncommitted INSERT of the name; when
\* that one is committed the INSERT raises IntegrityError, the session's
\* transaction is rolled back, and the read in the except clause raises
\* PendingRollbackError.
CreateRoleFlush(p) ==
  /\ proc[p].pc = "cu_role_flush"
  /\ \A q \in Procs \ {p} : ~proc[q].pendRole
  /\ IF DEFAULT_USER_ROLE \in roleTable
     THEN CreateFail(p, "PendingRollbackError", 500)
     ELSE /\ proc' = [proc EXCEPT ![p].pc = "cu_flush", ![p].pendRole = TRUE]
          /\ last' = NoCall
  /\ UNCHANGED <<now, users, nextId, roleTable, store, cache, issued, regPw, pwHist, consumed, loggedOut, revoked, entryExp>>

\* users.add(user); users.flush(): the INSERT waits for a concurrent
\* uncommitted INSERT of the same email, and raises IntegrityError when a
\* committed row has it.  flush() lets the IntegrityError through.
CreateFlush(p) ==
  /\ proc[p].pc = "cu_flush"
  /\ \A q \in Procs \ {p} : ~(proc[q].pendUser /\ proc[q].email = proc[p].email)
  /\ nextId' = nextId + 1
  /\ IF get_by_email(users, proc[p].email).present
     THEN CreateFail(p, "IntegrityError", 500)
     ELSE /\ proc' = [proc EXCEPT ![p].pc = "cu_commit", ![p].pendUser = TRUE,
                                  ![p].uid = nextId]
          /\ last' = NoCall
  /\ UNCHANGED <<now, users, roleTable, store, cache, issued, regPw, pwHist, consumed, loggedOut, revoked, entryExp>>

\* the request ends with the user stored without a role
CreateCommit_norole(p) ==
  /\ proc[p].pc = "cu_commit"
  /\ users' = [users EXCEPT ![proc[p].uid] =
                 User(proc[p].email, get_password_hash(proc[p].pw, proc[p].salt).hash, {})]
  /\ roleTable' = roleTable \cup {DEFAULT_USER_ROLE}
  /\ regPw' = [regPw EXCEPT ![proc[p].email] = proc[p].pw]
  /\ pwHist' = [pwHist EXCEPT ![proc[p].email] = [cur |-> proc[p].pw, prev |-> None]]
  /\ proc' = [proc EXCEPT ![p] = IdleProc]
  /\ last' = Call("create_user", NoToken, proc[p].email, proc[p].pw, {},
                  "ok", 201, "", proc[p].uid, [NoSnap EXCEPT !.roleNew = proc[p].pendRole])
  /\ UNCHANGED <<now, nextId, store, cache, issued, consumed, loggedOut, revoked, entryExp>>

\* the request ends: get_session commits the transaction
CreateCommit(p) ==
  /\ proc[p].pc = "cu_commit"
  /\ users' = [users EXCEPT ![proc[p].uid] =
                 User(proc[p].email, get_password_hash(proc[p].pw, proc[p].salt).hash,
                      {DEFAULT_USER_ROLE})]
  /\ roleTable' = roleTable \cup {DEFAULT_USER_ROLE}
  /\ regPw' = [regPw EXCEPT ![proc[p].email] = proc[p].pw]
  /\ pwHist' = [pwHist EXCEPT ![proc[p].email] = [cur |-> proc[p].pw, prev |-> None]]
  /\ proc' = [proc EXCEPT ![p] = IdleProc]
  /\ last' = Call("create_user", NoToken, proc[p].email, proc[p].pw, {DEFAULT_USER_ROLE},
                  "ok", 201, "", proc[p].uid, [NoSnap EXCEPT !.roleNew = proc[p].pendRole])
  /\ UNCHANGED <<now, nextId, store, cache, issued, consumed, loggedOut, revoked, entryExp>>

\* ------------------------------------------------------------- login_user
\* authenticate_user without the is_active test
authenticate_user_anystatus(tbl, email, password) ==
  LET user == get_by_email(tbl, email)
  IN IF ~user.present THEN 0
     ELSE IF ~verify_password(password, user.hashed_password) THEN 0
     ELSE id_by_email(tbl, email)

\* authenticate_user: the user, or 0 for None
authenticate_user(tbl, email, password) ==
  LET user == get_by_email(tbl, email)
  IN IF ~user.present \/ ~user.is_active THEN 0
     ELSE IF ~verify_password(password, user.hashed_password) THEN 0
     ELSE id_by_email(tbl, email)

LoginSnap(email) ==
  [NoSnap EXCEPT !.exists = get_by_email(users, email).present,
                 !.active = get_by_email(users, email).is_active,
                 !.reg = regPw[email],
                 !.cur = pwHist[email].cur,
                 !.prev = pwHist[email].prev]

\* login handler: login_user, then the session commit stores last_login
LoginUser(email, password) ==
  LET uid == authenticate_user(users, email, password)
      user == get_by_id(users, uid)
      access_token == create_access_token(str(uid), user.email, role_names(user.roles), now)
      refresh_token == create_refresh_token(str(uid), now)
  IN /\ IF uid = 0
        THEN /\ last' = Call("login", NoToken, email, password, {}, "InvalidCredentialsError",
                             401, "Invalid email or password", 0,
                             [LoginSnap(email) EXCEPT !.minted = {}, !.loginChanged = FALSE])
             /\ UNCHANGED <<users, issued>>
        ELSE /\ Cardinality(issued \cup {access_token, refresh_token}) <= MaxIssued
             /\ users' = [users EXCEPT ![uid].last_login = now]
             /\ issued' = issued \cup {access_token, refresh_token}
             /\ last' = Call("login", refresh_token, email, password, user.roles, "ok", 200, "",
                             uid, [LoginSnap(email) EXCEPT
                                     !.minted = {access_token, refresh_token},
                                     !.loginChanged = TRUE])
     /\ UNCHANGED <<now, nextId, roleTable, store, cache, proc, regPw, pwHist, consumed, loggedOut, revoked, entryExp>>

\* ------------------------------------------------------------------ guard
\* `"expired" in str(e).lower() or "exp" in str(e).lower()` on the JWTError
\* messages "Signature has expired." and "Invalid token type: expected=..."
mentions_exp(err) == err \in {"ExpiredSignatureError", "TokenTypeError"}

\* get_current_user without the is_active check
get_current_user_noactive(token, tbl, mode, st, nowTicks) ==
  LET d == decode_token(token, nowTicks)
      payload == d.claims
      err == IF d.err # "" THEN d.err
             ELSE IF ~assert_token_type(payload, "access") THEN "TokenTypeError"
             ELSE ""
      user_id == int(payload.sub)
      user == get_by_id(tbl, user_id)
  IN IF token = NoToken THEN [code |-> 401, detail |-> "Not authenticated", uid |-> 0]
     ELSE IF err # "" THEN
       IF mentions_exp(err) THEN [code |-> 401, detail |-> "Token expired", uid |-> 0]
       ELSE [code |-> 401, detail |-> "Invalid authentication credentials", uid |-> 0]
     ELSE IF payload.jti # None /\ is_token_blacklisted(payload.jti, mode, st, nowTicks)
       THEN [code |-> 401, detail |-> "Token has been revoked", uid |-> 0]
     ELSE IF user_id < 0 THEN [code |-> 401, detail |-> "Invalid token payload", uid |-> 0]
     ELSE IF ~user.present THEN [code |-> 401, detail |-> "User not found", uid |-> 0]
     ELSE [code |-> 200, detail |-> "", uid |-> user_id]

\* get_current_user: [code, detail, uid]
get_current_user(token, tbl, mode, st, nowTicks) ==
  LET d == decode_token(token, nowTicks)
      payload == d.claims
      err == IF d.err # "" THEN d.err
             ELSE IF ~assert_token_type(payload, "access") THEN "TokenTypeError"
             ELSE ""
      user_id == int(payload.sub)
      user == get_by_id(tbl, user_id)
  IN IF token = NoToken THEN [code |-> 401, detail |-> "Not authenticated", uid |-> 0]
     ELSE IF err # "" THEN
       IF mentions_exp(err) THEN [code |-> 401, detail |-> "Token expired", uid |-> 0]
       ELSE [code |-> 401, detail |-> "Invalid authentication credentials", uid |-> 0]
     ELSE IF payload.jti # None /\ is_token_blacklisted(payload.jti, mode, st, nowTicks)
       THEN [code |-> 401, detail |-> "Token has been revoked", uid |-> 0]
     ELSE IF user_id < 0 THEN [code |-> 401, detail |-> "Invalid token payload", uid |-> 0]
     ELSE IF ~user.present THEN [code |-> 401, detail |-> "User not found", uid |-> 0]
     ELSE IF ~user.is_active THEN [code |-> 403, detail |-> "User is inactive", uid |-> 0]
     ELSE [code |-> 200, detail |-> "", uid |-> user_id]

GuardSnap(token) ==
  LET payload == token.claims
      user == get_by_id(users, int(payload.sub))
  IN [NoSnap EXCEPT !.nowS = now \div TicksPerSec,
                    !.expired = is_expired(payload, now),
                    !.revoked = (payload.jti # None /\ key_exists(store, payload.jti, now)),
                    !.exists = user.present,
                    !.active = user.is_active,
                    !.dbRoles = user.roles]

\* role_checker of require_role / require_any_role / require_all_roles,
\* applied to the user get_current_user resolved
require_role(role_name, user) == role_name \in user.roles
require_any_role(names, user) == \E r \in names : r \in user.roles
require_all_roles(names, user) == names \ user.roles = {}

\* a guard that stamps the user it resolved, as authenticate_user does
GuardedCall_lastlogin(op, token, names, allowed) ==
  LET g == get_current_user(token, users, cache, store, now)
  IN /\ last' = IF g.code # 200
                THEN Call(op, token, None, "Secret123!", names, "HTTPException", g.code,
                          g.detail, 0, GuardSnap(token))
                ELSE IF ~allowed
                THEN Call(op, token, None, "Secret123!", names, "HTTPException", 403,
                          "Insufficient permissions", 0, GuardSnap(token))
                ELSE Call(op, token, None, "Secret123!", names, "ok", 200, "", g.uid,
                          GuardSnap(token))
     /\ users' = IF g.code = 200 THEN [users EXCEPT ![g.uid].last_login = now] ELSE users
     /\ UNCHANGED <<now, nextId, roleTable, store, cache, issued, proc, regPw, pwHist, consumed, loggedOut, revoked, entryExp>>

GuardedCall(op, token, names, allowed) ==
  LET g == get_current_user(token, users, cache, store, now)
  IN /\ last' = IF g.code # 200
                THEN Call(op, token, None, "Secret123!", names, "HTTPException", g.code,
                          g.detail, 0, GuardSnap(token))
                ELSE IF ~allowed
                THEN Call(op, token, None, "Secret123!", names, "HTTPException", 403,
                          "Insufficient permissions", 0, GuardSnap(token))
                ELSE Call(op, token, None, "Secret123!", names, "ok", 200, "", g.uid,
                          GuardSnap(token))
     /\ UNCHANGED <<now, users, nextId, roleTable, store, cache, issued, proc, regPw, pwHist, consumed, loggedOut, revoked, entryExp>>

\* GET /me: Depends(get_current_user)
GetCurrentUser(token) == GuardedCall("get_current_user", token, {}, TRUE)

\* the resolved user carrying the roles embedded in the token
GuardUser_tokenroles(token) ==
  [get_by_id(users, get_current_user(token, users, cache, store, now).uid)
     EXCEPT !.roles = {token.claims.roles[i] : i \in 1..Len(token.claims.roles)}]

\* current_user as Depends(get_current_user) hands it to role_checker
GuardUser(token) ==
  get_by_id(users, get_current_user(token, users, cache, store, now).uid)

RequireRole(token, role_name) ==
  GuardedCall("require_role", token, {role_name}, require_role(role_name, GuardUser(token)))

RequireAnyRole(token, names) ==
  GuardedCall("require_any_role", token, names, require_any_role(names, GuardUser(token)))

RequireAllRoles(token, names) ==
  GuardedCall("require_all_roles", token, names, require_all_roles(names, GuardUser(token)))

\* --------------------------------------------------- refresh_access_token
Refreshing(p) == proc[p].pc \in {"rf_blacklist", "rf_user", "rf_revoke", "rf_issue"}

RefreshSnap(p) ==
  [GuardSnap(proc[p].tok) EXCEPT !.before = proc[p].before, !.conc = proc[p].conc,
                                 !.out = proc[p].out, !.args = proc[p].args]

\* the call raises `status` and the request ends
RefreshFail(p, tok, status, detail, snap) ==
  /\ proc' = [proc EXCEPT ![p] = IdleProc]
  /\ last' = Call("refresh", tok, None, "Secret123!", {}, status, 401, detail, 0, snap)

\* decode_token, assert_token_type (any exception -> InvalidTokenError),
\* then payload.is_expired(); args is what the caller was given
RefreshCall(p, tok, args) ==
  LET d == decode_token(tok, now)
      snap == [GuardSnap(tok) EXCEPT !.before = tok = consumed, !.out = tok = loggedOut,
                                     !.args = args]
  IN /\ proc[p].pc = "idle"
     /\ IF d.err # "" \/ ~assert_token_type(d.claims, "refresh")
        THEN RefreshFail(p, tok, "InvalidTokenError", "Invalid authentication credentials", snap)
        ELSE IF is_expired(d.claims, now)
        THEN RefreshFail(p, tok, "TokenExpiredError", "Token expired", snap)
        ELSE /\ proc' = [proc EXCEPT ![p] = [IdleProc EXCEPT !.pc = "rf_blacklist", !.tok = tok,
                                                             !.before = tok = consumed,
                                                             !.out = tok = loggedOut,
                                                             !.args = args]]
             /\ last' = NoCall
     /\ UNCHANGED <<now, users, nextId, roleTable, store, cache, issued, regPw, pwHist, consumed, loggedOut, revoked, entryExp>>

\* refresh_access_token(tok) called on its own
RefreshStart(p, tok) == RefreshCall(p, tok, <<>>)

\* a cookie, or the refresh_token field of the body: not there, there with
\* an empty value (NoToken), or there with a token
Absent == [has |-> FALSE, value |-> NoToken]
EmptyValue == [has |-> TRUE, value |-> NoToken]
Given(tok) == [has |-> TRUE, value |-> tok]

\* Python's truth value of request.cookies.get(name) and of
\* refresh_token_request.refresh_token
truthy(x) == x.has /\ x.value # NoToken

\* the refresh handler looking at the body first
refresh_token_source_bodyfirst(cookie, body) ==
  IF truthy(body) THEN [err |-> "", tok |-> body.value, source |-> "body"]
  ELSE IF truthy(cookie) THEN [err |-> "", tok |-> cookie.value, source |-> "cookie"]
  ELSE [err |-> "InvalidTokenError", tok |-> NoToken, source |-> ""]

\* refresh handler: token = request.cookies.get(...); if not token: the
\* body's refresh_token, else InvalidTokenError
refresh_token_source(cookie, body) ==
  IF truthy(cookie) THEN [err |-> "", tok |-> cookie.value, source |-> "cookie"]
  ELSE IF truthy(body) THEN [err |-> "", tok |-> body.value, source |-> "body"]
  ELSE [err |-> "InvalidTokenError", tok |-> NoToken, source |-> ""]

\* refresh handler up to the call of auth_service.refresh_access_token
RefreshEndpoint(p, cookie, body) ==
  LET c == refresh_token_source(cookie, body)
  IN IF c.err # ""
     THEN /\ proc[p].pc = "idle"
          /\ last' = Call("refresh_endpoint", NoToken, None, "Secret123!", {}, c.err, 401,
                          "Refresh token not provided", 0,
                          [NoSnap EXCEPT !.args = <<cookie, body>>])
          /\ UNCHANGED <<now, users, nextId, roleTable, store, cache, issued, proc, regPw, pwHist, consumed, loggedOut, revoked, entryExp>>
     ELSE RefreshCall(p, c.tok, <<cookie, body>>)

\* if payload.jti and await is_token_blacklisted(payload.jti); int(payload.sub)
RefreshCheckBlacklist(p) ==
  LET payload == proc[p].tok.claims
  IN /\ proc[p].pc = "rf_blacklist"
     /\ IF payload.jti # None /\ is_token_blacklisted(payload.jti, cache, store, now)
        THEN RefreshFail(p, proc[p].tok, "InvalidTokenError", "Token has been revoked",
                         RefreshSnap(p))
        ELSE IF int(payload.sub) < 0
        THEN RefreshFail(p, proc[p].tok, "InvalidTokenError",
                         "Invalid authentication credentials", RefreshSnap(p))
        ELSE /\ proc' = [proc EXCEPT ![p].pc = "rf_user", ![p].uid = int(payload.sub)]
             /\ last' = NoCall
     /\ UNCHANGED <<now, users, nextId, roleTable, store, cache, issued, regPw, pwHist, consumed, loggedOut, revoked, entryExp>>

\* refresh_access_token revoking the presented token before it loads the user
RefreshLoadUser_revokefirst(p) ==
  LET user == get_by_id(users, proc[p].uid)
      payload == proc[p].tok.claims
  IN /\ proc[p].pc = "rf_user"
     /\ store' = IF payload.jti # None
                 THEN blacklist_token(payload.jti, expires_at(payload), cache, store, now)
                 ELSE store
     /\ revoked' = IF payload.jti # None THEN NoteRevoke(payload.jti, payload.exp) ELSE revoked
     /\ entryExp' = IF payload.jti # None THEN NoteEntry(payload.jti, payload.exp, store')
                    ELSE entryExp
     /\ IF ~user.present \/ ~user.is_active
        THEN RefreshFail(p, proc[p].tok, "InvalidTokenError",
                         "Invalid authentication credentials", RefreshSnap(p))
        ELSE /\ proc' = [proc EXCEPT ![p].pc = "rf_revoke", ![p].email = user.email,
                                     ![p].uroles = user.roles]
             /\ last' = NoCall
     /\ UNCHANGED <<now, users, nextId, roleTable, cache, issued, regPw, pwHist, consumed, loggedOut>>

\* user = await self.get_user_by_id(user_id)
RefreshLoadUser(p) ==
  LET user == get_by_id(users, proc[p].uid)
  IN /\ proc[p].pc = "rf_user"
     /\ IF ~user.present \/ ~user.is_active
        THEN RefreshFail(p, proc[p].tok, "InvalidTokenError",
                         "Invalid authentication credentials", RefreshSnap(p))
        ELSE /\ proc' = [proc EXCEPT ![p].pc = "rf_revoke", ![p].email = user.email,
                                     ![p].uroles = user.roles]
             /\ last' = NoCall
     /\ UNCHANGED <<now, users, nextId, roleTable, store, cache, issued, regPw, pwHist, consumed, loggedOut, revoked, entryExp>>

\* if payload.jti: await blacklist_token(payload.jti, payload.expires_at())
RefreshRevoke(p) ==
  LET payload == proc[p].tok.claims
  IN /\ proc[p].pc = "rf_revoke"
     /\ store' = IF payload.jti # None
                 THEN blacklist_token(payload.jti, expires_at(payload), cache, store, now)
                 ELSE store
     /\ revoked' = IF payload.jti # None THEN NoteRevoke(payload.jti, payload.exp) ELSE revoked
     /\ entryExp' = IF payload.jti # None THEN NoteEntry(payload.jti, payload.exp, store')
                    ELSE entryExp
     /\ proc' = [proc EXCEPT ![p].pc = "rf_issue"]
     /\ last' = NoCall
     /\ UNCHANGED <<now, users, nextId, roleTable, cache, issued, regPw, pwHist, consumed, loggedOut>>

\* create the new access and refresh token and return the pair
RefreshIssue(p) ==
  LET new_access_token == create_access_token(str(proc[p].uid), proc[p].email,
                                              role_names(proc[p].uroles), now)
      new_refresh_token == create_refresh_token(str(proc[p].uid), now)
  IN /\ proc[p].pc = "rf_issue"
     /\ Cardinality(issued \cup {new_access_token, new_refresh_token}) <= MaxIssued
     /\ issued' = issued \cup {new_access_token, new_refresh_token}
     /\ consumed' = proc[p].tok
     /\ proc' = [q \in Procs |->
                  IF q = p THEN IdleProc
                  ELSE IF Refreshing(q) /\ proc[q].tok = proc[p].tok
                       THEN [proc[q] EXCEPT !.conc = TRUE]
                       ELSE proc[q]]
     /\ last' = Call("refresh", proc[p].tok, proc[p].email, "Secret123!", proc[p].uroles,
                     "ok", 200, "", proc[p].uid,
                     [RefreshSnap(p) EXCEPT !.minted = {new_access_token, new_refresh_token}])
     /\ UNCHANGED <<now, users, nextId, roleTable, store, cache, regPw, pwHist, loggedOut, revoked, entryExp>>

\* ----------------------------------------------------------------- logout
logout_kwargs == {"token", "verify_exp"}

\* a try block that lets the exception through
logout_except_reraise(err) == err

\* except Exception: every exception raised while decoding or blacklisting
\* is logged and dropped
logout_except(err) == ""

\* logout handler: the cookie is read (NoToken: no cookie or an empty one),
\* decoded and blacklisted inside the try; then the response deletes the
\* cookie and 200 is returned.  calls is what the handler did to the response
Logout(tok) ==
  LET d == decode_token_call(tok, logout_kwargs, now)
      raised == logout_except(IF tok = NoToken THEN "" ELSE d.err)
  IN /\ store' = IF tok # NoToken /\ d.err = "" /\ d.claims.jti # None
                 THEN blacklist_token(d.claims.jti, expires_at(d.claims), cache, store, now)
                 ELSE store
     /\ revoked' = IF tok # NoToken /\ d.err = "" /\ d.claims.jti # None
                   THEN NoteRevoke(d.claims.jti, d.claims.exp)
                   ELSE revoked
     /\ entryExp' = IF tok # NoToken /\ d.err = "" /\ d.claims.jti # None
                    THEN NoteEntry(d.claims.jti, d.claims.exp, store')
                    ELSE entryExp
     /\ loggedOut' = tok
     /\ last' = IF raised = ""
                THEN Call("logout", tok, None, "Secret123!", {}, "ok", 200,
                          "Logged out successfully", 0,
                          [GuardSnap(tok) EXCEPT !.calls = <<"delete_cookie">>])
                ELSE Call("logout", tok, None, "Secret123!", {}, raised, 500, "", 0,
                          GuardSnap(tok))
     /\ UNCHANGED <<now, users, nextId, roleTable, cache, issued, proc, regPw, pwHist, consumed>>

\* ------------------------------------------------------- change_password
\* change-password handler: Depends(get_current_user), change_user_password,
\* then the session commit stores the new hash
ChangePassword(token, current_password, new_password, salt) ==
  LET g == get_current_user(token, users, cache, store, now)
      user == get_by_id(users, g.uid)
      h == get_password_hash(new_password, salt)
  IN /\ IF g.code # 200
        THEN /\ last' = Call("change_password", token, None, current_password, {},
                             "HTTPException", g.code, g.detail, 0, GuardSnap(token))
             /\ UNCHANGED <<users, regPw, pwHist>>
        ELSE IF ~verify_password(current_password, user.hashed_password)
        THEN /\ last' = Call("change_password", token, user.email, current_password, {},
                             "InvalidCredentialsError", 401, "Invalid current password",
                             g.uid, GuardSnap(token))
             /\ UNCHANGED <<users, regPw, pwHist>>
        ELSE IF h.err # ""
        THEN /\ last' = Call("change_password", token, user.email, current_password, {},
                             h.err, 500, "", g.uid, GuardSnap(token))
             /\ UNCHANGED <<users, regPw, pwHist>>
        ELSE /\ users' = [users EXCEPT ![g.uid].hashed_password = h.hash]
             /\ regPw' = [regPw EXCEPT ![user.email] = None]
             /\ pwHist' = [pwHist EXCEPT ![user.email] = [cur |-> new_password, prev |-> @.cur]]
             /\ last' = Call("change_password", token, user.email, current_password, {},
                             "ok", 200, "Password changed successfully", g.uid,
                             GuardSnap(token))
     /\ UNCHANGED <<now, nextId, roleTable, store, cache, issued, proc, consumed, loggedOut, revoked, entryExp>>

\* ------------------------------------------------- the codec by itself
\* a caller decodes a token: decode_token(token, **kwargs)
Decode(tok, kwargs) ==
  LET d == decode_token_call(tok, kwargs, now)
  IN /\ last' = Call("decode", tok, None, "Secret123!", {},
                     IF d.err = "" THEN "ok" ELSE d.err, 0, "", 0,
                     [GuardSnap(tok) EXCEPT !.kwargs = kwargs, !.payload = d.claims])
     /\ UNCHANGED <<now, users, nextId, roleTable, store, cache, issued, proc, regPw, pwHist, consumed, loggedOut, revoked, entryExp>>

\* decode_token(create_access_token(sub=sub, email=email, roles=roles))
IssueAccessDecode(sub, email, roles) ==
  LET token == create_access_token(sub, email, roles, now)
      d == decode_token(token, now)
  IN /\ last' = Call("issue_access", token, email, "Secret123!", {},
                     IF d.err = "" THEN "ok" ELSE d.err, 0, "", 0,
                     [GuardSnap(token) EXCEPT !.sub = sub, !.rolesIn = roles,
                                              !.payload = d.claims])
     /\ UNCHANGED <<now, users, nextId, roleTable, store, cache, issued, proc, regPw, pwHist, consumed, loggedOut, revoked, entryExp>>

\* decode_token(create_refresh_token(sub=sub))
IssueRefreshDecode(sub) ==
  LET token == create_refresh_token(sub, now)
      d == decode_token(token, now)
  IN /\ last' = Call("issue_refresh", token, None, "Secret123!", {},
                     IF d.err = "" THEN "ok" ELSE d.err, 0, "", 0,
                     [GuardSnap(token) EXCEPT !.sub = sub, !.payload = d.claims])
     /\ UNCHANGED <<now, users, nextId, roleTable, store, cache, issued, proc, regPw, pwHist, consumed, loggedOut, revoked, entryExp>>

\* ------------------------------------------------- the blacklist by itself
\* a caller revokes the token (jti, exp)
Revoke(jti, exp) ==
  /\ store' = blacklist_token(jti, exp * TicksPerSec, cache, store, now)
  /\ revoked' = NoteRevoke(jti, exp)
  /\ entryExp' = NoteEntry(jti, exp, store')
  /\ last' = Call("revoke", NoToken, jti, "Secret123!", {}, "ok", exp, "", 0, NoSnap)
  /\ UNCHANGED <<now, users, nextId, roleTable, cache, issued, proc, regPw, pwHist, consumed, loggedOut>>

\* a caller asks whether jti is revoked
IsRevoked(jti) ==
  /\ last' = Call("is_revoked", NoToken, jti, "Secret123!", {},
                  IF is_token_blacklisted(jti, cache, store, now) THEN "True" ELSE "False",
                  0, "", 0, NoSnap)
  /\ UNCHANGED <<now, users, nextId, roleTable, store, cache, issued, proc, regPw, pwHist, consumed, loggedOut, revoked, entryExp>>

\* ------------------------------------------------------- unit of work
\* the session of a request whose body has used it: a transaction is in
\* progress; calls is the list of session methods called after the body
Session0 == [txn |-> "active", calls |-> <<>>, committed |-> FALSE]

\* what the database makes of a COMMIT and of a ROLLBACK
CommitOutcomes == {"ok", "IntegrityError", "OperationalError"}
RollbackOutcomes == {"ok", "OperationalError"}
\* what the body of the unit of work raised, "" when it returned
BodyOutcomes == {"", "InvalidCredentialsError", "IntegrityError"}

\* AsyncSession.commit(): with no transaction in progress no connection is
\* touched; a failed COMMIT leaves the transaction to be rolled back
session_commit(s, out) ==
  IF s.txn = "none"
  THEN [s |-> [s EXCEPT !.calls = Append(@, "commit")], err |-> ""]
  ELSE IF out = "ok"
       THEN [s |-> [s EXCEPT !.txn = "none", !.calls = Append(@, "commit"),
                             !.committed = TRUE], err |-> ""]
       ELSE [s |-> [s EXCEPT !.calls = Append(@, "commit")], err |-> out]

\* AsyncSession.rollback(): the transaction is over whether or not the
\* ROLLBACK reached the database
session_rollback(s, out) ==
  IF s.txn = "none"
  THEN [s |-> [s EXCEPT !.calls = Append(@, "rollback")], err |-> ""]
  ELSE [s |-> [s EXCEPT !.txn = "none", !.calls = Append(@, "rollback")],
        err |-> IF out = "ok" THEN "" ELSE out]

_rollback_quietly(s, rout) == [s |-> session_rollback(s, rout).s, err |-> ""]

\* commit() that lets nothing through
uow_commit_swallow(s, cout, rout) ==
  LET c == session_commit(s, cout)
  IN IF c.err = "" THEN c ELSE [s |-> _rollback_quietly(c.s, rout).s, err |-> ""]

\* SqlAlchemyUnitOfWork.commit
uow_commit(s, cout, rout) ==
  LET c == session_commit(s, cout)
  IN IF c.err = ""
     THEN c
     ELSE [s |-> _rollback_quietly(c.s, rout).s,
           err |-> IF c.err = "IntegrityError" THEN "ConflictError"
                   ELSE "ServiceUnavailableError"]

\* SqlAlchemyUnitOfWork.rollback
uow_rollback(s, rout) ==
  LET r == session_rollback(s, rout)
  IN [s |-> r.s, err |-> IF r.err = "" THEN "" ELSE "ServiceUnavailableError"]

\* SqlAlchemyUnitOfWork.__aexit__: returns None, so exc goes on unless the
\* rollback raised
uow_aexit(s, exc, cout, rout) ==
  IF exc # ""
  THEN LET r == uow_rollback(s, rout)
       IN [s |-> r.s, err |-> IF r.err # "" THEN r.err ELSE exc]
  ELSE uow_commit(s, cout, rout)

\* get_session after its yield: exc is what the dependants raised
get_session(s, exc, cout, rout) ==
  IF exc = ""
  THEN LET c == session_commit(s, cout)
       IN IF c.err = ""
          THEN c
          ELSE LET r == session_rollback(c.s, rout)
               IN [s |-> r.s, err |-> IF r.err # "" THEN r.err ELSE c.err]
  ELSE LET r == session_rollback(s, rout)
       IN [s |-> r.s, err |-> IF r.err # "" THEN r.err ELSE exc]

\* ApplicationError.status_code; any other exception is answered 500
status_code(err) ==
  IF err = "" THEN 200
  ELSE IF err = "ConflictError" THEN 409
  ELSE IF err = "ServiceUnavailableError" THEN 503
  ELSE IF err \in {"InvalidCredentialsError", "InvalidTokenError", "TokenExpiredError"} THEN 401
  ELSE 500

\* get_uow: a request ends; the unit of work exits inside get_session
UnitOfWorkRequest(exc, cout, rout) ==
  LET u == uow_aexit(Session0, exc, cout, rout)
      g == get_session(u.s, u.err, cout, rout)
  IN /\ last' = Call("uow", NoToken, None, "Secret123!", {},
                     IF g.err = "" THEN "ok" ELSE g.err, status_code(g.err), "", 0,
                     [NoSnap EXCEPT !.calls = g.s.calls, !.args = <<exc, cout, rout>>,
                                    !.committed = g.s.committed])
     /\ UNCHANGED <<now, users, nextId, roleTable, store, cache, issued, proc, regPw, pwHist, consumed, loggedOut, revoked, entryExp>>

\* ------------------------------------------------------------ middlewares
\* values of the Content-Length header (None: no header) and what Python's
\* int() makes of them; every other string raises ValueError
ContentLengths == {None, "", "abc", "2.0", "-1", "0", "1", "2", "3", "4", " 3 ", "+4"}
IntOf == ("-1" :> 0 - 1) @@ ("0" :> 0) @@ ("1" :> 1) @@ ("2" :> 2) @@ ("3" :> 3)
           @@ ("4" :> 4) @@ (" 3 " :> 3) @@ ("+4" :> 4)
int_content_length(h) ==
  IF h \in DOMAIN IntOf THEN [err |-> "", size |-> IntOf[h]]
  ELSE [err |-> "ValueError", size |-> 0]

\* settings of max_size tried, with the handler's answer
MaxSizes == {2, 3}
HandlerCodes == {200, 401}

\* dispatch refusing a body of exactly max_size bytes
request_size_dispatch_strict(content_length, max_size, handler) ==
  IF content_length = None \/ content_length = ""
  THEN [code |-> handler, calls |-> <<"call_next">>]
  ELSE IF int_content_length(content_length).err # ""
  THEN [code |-> handler, calls |-> <<"call_next">>]
  ELSE IF int_content_length(content_length).size < max_size
  THEN [code |-> handler, calls |-> <<"call_next">>]
  ELSE [code |-> 413, calls |-> <<>>]

\* RequestSizeLimitMiddleware.dispatch: the response's status and the calls
\* of call_next; handler is the status the handler answers with
request_size_dispatch(content_length, max_size, handler) ==
  IF content_length = None \/ content_length = ""
  THEN [code |-> handler, calls |-> <<"call_next">>]
  ELSE IF int_content_length(content_length).err # ""
  THEN [code |-> handler, calls |-> <<"call_next">>]
  ELSE IF int_content_length(content_length).size <= max_size
  THEN [code |-> handler, calls |-> <<"call_next">>]
  ELSE [code |-> 413, calls |-> <<>>]

\* a request goes through RequestSizeLimitMiddleware(max_size)
RequestSizeLimit(content_length, max_size, handler) ==
  LET r == request_size_dispatch(content_length, max_size, handler)
  IN /\ last' = Call("request_size", NoToken, content_length, "Secret123!", {},
                     IF r.code = 413 THEN "Request entity too large" ELSE "ok", r.code, "", 0,
                     [NoSnap EXCEPT !.calls = r.calls, !.max_size = max_size,
                                    !.args = <<handler>>])
     /\ UNCHANGED <<now, users, nextId, roleTable, store, cache, issued, proc, regPw, pwHist, consumed, loggedOut, revoked, entryExp>>

\* what one call of call_next, of get_cached_response or of cache_response
\* does: return or raise
Outcomes == {"ok", "raise"}
Lookups == {"hit", "miss", "raise"}

\* `return await call_next(request)` as the last thing done: calls so far
\* plus this one; the exception of the handler goes to the caller
call_next_last(calls, h) ==
  [calls |-> Append(calls, "call_next"), err |-> IF h = "raise" THEN "Exception" ELSE "",
   source |-> "handler"]

\* CacheMiddleware.dispatch: adapter is whether a request cache adapter was
\* given, should what should_cache returns, lookup what get_cached_response
\* does, h1 and h2 what the handler does when called the first and the
\* second time, put what cache_response does.  Every call_next inside the
\* try is under `except Exception`, whose clause calls call_next.
cache_dispatch(adapter, should, lookup, h1, h2, put) ==
  IF ~adapter THEN call_next_last(<<>>, h1)
  ELSE IF ~should
  THEN IF h1 = "raise" THEN call_next_last(<<"call_next">>, h2)
       ELSE call_next_last(<<>>, h1)
  ELSE IF lookup = "raise" THEN call_next_last(<<>>, h1)
  ELSE IF lookup = "hit" THEN [calls |-> <<>>, err |-> "", source |-> "cache"]
  ELSE IF h1 = "raise" THEN call_next_last(<<"call_next">>, h2)
  ELSE IF put = "raise" THEN call_next_last(<<"call_next">>, h2)
  ELSE [calls |-> <<"call_next">>, err |-> "", source |-> "handler"]

\* a request goes through CacheMiddleware
CacheDispatch(adapter, should, lookup, h1, h2, put) ==
  LET r == cache_dispatch(adapter, should, lookup, h1, h2, put)
  IN /\ last' = Call("cache_dispatch", NoToken, None, "Secret123!", {},
                     IF r.err = "" THEN "ok" ELSE r.err, IF r.err = "" THEN 200 ELSE 500,
                     r.source, 0,
                     [NoSnap EXCEPT !.calls = r.calls,
                                    !.args = <<adapter, should, lookup, h1, h2, put>>])
     /\ UNCHANGED <<now, users, nextId, roleTable, store, cache, issued, proc, regPw, pwHist, consumed, loggedOut, revoked, entryExp>>

\* ------------------------------------------------------------------ specs
RoleSets == {{"admin", "user"}}
ValidPasswords == {pw \in Passwords : validate_password(pw)}

EnvCache == CacheFail \/ CacheRecover

Admin ==
  \/ \E u \in UserIds, r \in AllRoles : assignRole(u, r)
  \/ \E u \in UserIds, r \in AllRoles : revokeRole(u, r)
  \/ \E u \in UserIds : deactivateUser(u)

\* register requests of workers P for emails E and passwords PW
Register(P, E, PW, S) ==
  \/ \E p \in P, e \in E, pw \in PW, salt \in S : CreateBegin(p, e, pw, salt)
  \/ \E p \in P : CreateCheck(p)
  \/ \E p \in P : CreateRoleLookup(p)
  \/ \E p \in P : CreateRoleFlush(p)
  \/ \E p \in P : CreateFlush(p)
  \/ \E p \in P : CreateCommit(p)

Login(E, PW) == \E e \in E, pw \in PW : LoginUser(e, pw)

Guard(T) == \E t \in T : GetCurrentUser(t)

RolePredicates(T) ==
  \/ \E t \in T, r \in AllRoles : RequireRole(t, r)
  \/ \E t \in T, rs \in RoleSets : RequireAnyRole(t, rs)
  \/ \E t \in T, rs \in RoleSets : RequireAllRoles(t, rs)

Refresh(P, T) ==
  \/ \E p \in P, t \in T \ {NoToken} : RefreshStart(p, t)
  \/ \E p \in P : RefreshCheckBlacklist(p)
  \/ \E p \in P : RefreshLoadUser(p)
  \/ \E p \in P : RefreshRevoke(p)
  \/ \E p \in P : RefreshIssue(p)

LogoutAny(T) == \E t \in T : Logout(t)

ChangePw(T, PW) ==
  \E t \in T, cur \in PW, new \in PW, salt \in Salts : ChangePassword(t, cur, new, salt)

\* the whole service
Next ==
  \/ Tick
  \/ EnvCache
  \/ Admin
  \/ Register(Procs, Emails, Passwords, Salts)
  \/ Login(Emails, Passwords)
  \/ Guard(Presentable)
  \/ RolePredicates(Presentable)
  \/ Refresh(Procs, Presentable)
  \/ LogoutAny(Presentable)
  \/ ChangePw(Presentable, Passwords)

Spec == Init /\ [][Next]_vars

\* registration by concurrent workers
NextCreate == Register(Procs, Emails, Passwords, Salts)

SpecCreate == Init /\ [][NextCreate]_vars

\* one registered account, login, rotation and logout, one request at a time
RefreshTokens == {t \in issued \cup ForeignTokens : t.claims.type = "refresh"}
RotateTokens == RefreshTokens \cup {t \in ForeignTokens : t.claims.jti # None} \cup {Garbage}

NextRotate ==
  \/ Tick
  \/ Register({1}, {"a@x.com"}, {"Secret123!"}, {"s1"})
  \/ Login({"a@x.com"}, {"Secret123!"})
  \/ Refresh({1}, RotateTokens)
  \/ LogoutAny(RotateTokens \cup {NoToken})

SpecRotate == Init /\ [][NextRotate]_vars

\* rotation by two workers at once
NextRace ==
  \/ Tick
  \/ Register({1}, {"a@x.com"}, {"Secret123!"}, {"s1"})
  \/ Login({"a@x.com"}, {"Secret123!"})
  \/ Refresh(Procs, RefreshTokens)

SpecRace == Init /\ [][NextRace]_vars

\* the guard in front of one account, logged in once, whose roles and
\* status change
AccessJtis == {t.claims.jti : t \in {f \in ForeignTokens : f.claims.type = "access"}} \ {None}

GuardTokens == issued \cup {t \in ForeignTokens : t.claims.type = "access"}
                      \cup {Garbage, NoToken}

NextGuard ==
  \/ Tick
  \/ Admin
  \/ Register({1}, {"a@x.com"}, {"Secret123!"}, {"s1"})
  \/ (issued = {} /\ Login({"a@x.com"}, {"Secret123!"}))
  \/ Guard(GuardTokens)
  \/ RolePredicates({t \in GuardTokens : t \in issued \/ t.claims.jti # None})
  \/ \E j \in AccessJtis : Revoke(j, AccessTTL)

SpecGuard == Init /\ [][NextGuard]_vars

\* access and refresh tokens presented to the guard and to the refresh call
NextKind ==
  \/ Tick
  \/ Register({1}, {"a@x.com"}, {"Secret123!"}, {"s1"})
  \/ Login({"a@x.com"}, {"Secret123!"})
  \/ Guard(Presentable)
  \/ Refresh({1}, Presentable)

SpecKind == Init /\ [][NextKind]_vars

\* the revocation store on its own
ExpSeconds == 0..(MaxTime \div TicksPerSec + 1)

NextStore ==
  \/ Tick
  \/ EnvCache
  \/ \E j \in Jtis, exp \in ExpSeconds : Revoke(j, exp)
  \/ \E j \in Jtis : IsRevoked(j)

SpecStore == Init /\ [][NextStore]_vars

\* the token codec on its own
CodecSubs == {"1", "9", "x"}
CodecEmails == {None, "a@x.com"}
CodecRoles == {<<>>, <<"admin">>, <<"user", "admin">>, <<"admin", "user", "admin">>,
               <<"", "user">>}
CodecKwargs == {{"token"}, {"token", "verify_exp"}}

NextCodec ==
  \/ Tick
  \/ \E t \in ForeignTokens \cup {Garbage}, kw \in CodecKwargs : Decode(t, kw)
  \/ \E sub \in CodecSubs, email \in CodecEmails, roles \in CodecRoles :
       IssueAccessDecode(sub, email, roles)
  \/ \E sub \in CodecSubs : IssueRefreshDecode(sub)

SpecCodec == Init /\ [][NextCodec]_vars

\* one account behind a revocation store that goes away and comes back
OutageTokens == issued \cup {t \in ForeignTokens : t.claims.jti # None}

NextOutage ==
  \/ Tick
  \/ EnvCache
  \/ Register({1}, {"a@x.com"}, {"Secret123!"}, {"s1"})
  \/ (issued = {} /\ Login({"a@x.com"}, {"Secret123!"}))
  \/ Guard({t \in OutageTokens : t.claims.type = "access"})
  \/ Refresh({1}, {t \in OutageTokens : t.claims.type = "refresh"})
  \/ \E j \in Jtis : Revoke(j, RefreshTTL)
  \/ \E j \in Jtis : IsRevoked(j)

SpecOutage == Init /\ [][NextOutage]_vars

\* an account that logs in, changes its password and gets deactivated
NextLogin ==
  \/ Tick
  \/ Register({1}, {"a@x.com"}, {"Secret123!"}, {"s1"})
  \/ Login(Emails, Passwords)
  \/ \E u \in UserIds : deactivateUser(u)
  \/ \E t \in {a \in issued : a.claims.type = "access"},
        cur \in Passwords, new \in ValidPasswords :
       ChangePassword(t, cur, new, "s2")

SpecLogin == Init /\ [][NextLogin]_vars

\* what happens around the handlers: the middlewares and the end of a
\* request's transaction
NextBoundary ==
  \/ Tick
  \/ \E exc \in BodyOutcomes, cout \in CommitOutcomes, rout \in RollbackOutcomes :
       UnitOfWorkRequest(exc, cout, rout)
  \/ \E h \in ContentLengths, m \in MaxSizes, code \in HandlerCodes :
       RequestSizeLimit(h, m, code)
  \/ \E adapter \in BOOLEAN, should \in BOOLEAN, lookup \in Lookups,
        h1 \in Outcomes, h2 \in Outcomes, put \in Outcomes :
       CacheDispatch(adapter, should, lookup, h1, h2, put)

SpecBoundary == Init /\ [][NextBoundary]_vars

\* one account and the refresh handler
EndpointTokens == {t \in issued : t.claims.type = "refresh"} \cup {Garbage}
Cookies == {Absent, EmptyValue} \cup {Given(t) : t \in EndpointTokens}
Bodies == {Absent, EmptyValue} \cup {Given(t) : t \in EndpointTokens}

NextEndpoint ==
  \/ Tick
  \/ Register({1}, {"a@x.com"}, {"Secret123!"}, {"s1"})
  \/ (issued = {} /\ Login({"a@x.com"}, {"Secret123!"}))
  \/ \E cookie \in Cookies, body \in Bodies : RefreshEndpoint(1, cookie, body)
  \/ \E p \in {1} : RefreshCheckBlacklist(p)
  \/ \E p \in {1} : RefreshLoadUser(p)
  \/ \E p \in {1} : RefreshRevoke(p)
  \/ \E p \in {1} : RefreshIssue(p)

SpecEndpoint == Init /\ [][NextEndpoint]_vars

\* one account and the logout handler, with the revocation store going away
\* and coming back
LogoutTokens == issued \cup {t \in ForeignTokens : t.claims.jti # None} \cup {Garbage, NoToken}

NextLogout ==
  \/ Tick
  \/ EnvCache
  \/ Register({1}, {"a@x.com"}, {"Secret123!"}, {"s1"})
  \/ (issued = {} /\ Login({"a@x.com"}, {"Secret123!"}))
  \/ LogoutAny(LogoutTokens)

SpecLogout == Init /\ [][NextLogout]_vars

\* the guard, the role predicates and the decoder in front of one account
\* whose roles and status change, with entries in the revocation store
FrameTokens == {t \in issued : t.claims.type = "access"}
                 \cup {t \in ForeignTokens : t.claims.jti = "j2"} \cup {Garbage, NoToken}

NextFrame ==
  \/ Tick
  \/ Admin
  \/ Register({1}, {"a@x.com"}, {"Secret123!"}, {"s1"})
  \/ (issued = {} /\ Login({"a@x.com"}, {"Secret123!"}))
  \/ Guard(FrameTokens)
  \/ RolePredicates(FrameTokens \ {Garbage, NoToken})
  \/ \E t \in FrameTokens \ {NoToken}, kw \in CodecKwargs : Decode(t, kw)
  \/ \E j \in AccessJtis : Revoke(j, AccessTTL)

SpecFrame == Init /\ [][NextFrame]_vars

\* refresh_access_token given every kind of token it refuses, for one
\* account that gets deactivated
OddRefreshTokens ==
  { encode(TokenPayload("x", "refresh", 0, RefreshTTL, None, <<>>, None), JWT_SECRET_KEY),
    encode(TokenPayload("9", "refresh", 0, RefreshTTL, None, <<>>, "j2"), JWT_SECRET_KEY) }

RefusedTokens == issued \cup OddRefreshTokens \cup {Garbage}
                   \cup {t \in ForeignTokens : t.claims.jti # None}

NextRefuse ==
  \/ Tick
  \/ Register({1}, {"a@x.com"}, {"Secret123!"}, {"s1"})
  \/ (issued = {} /\ Login({"a@x.com"}, {"Secret123!"}))
  \/ \E u \in UserIds : deactivateUser(u)
  \/ Refresh({1}, RefusedTokens)

SpecRefuse == Init /\ [][NextRefuse]_vars

\* ----------------------------------------------------------------- claims

\* C2: a create_user call that loses the race for an email (the email is
\* stored by the time the call fails) fails with UserAlreadyExistsError,
\* never with the storage layer's uniqueness violation.
C2_RaceLoserGetsUserAlreadyExists ==
  (last.op = "create_user" /\ last.status # "ok" /\ last.snap.exists)
    => last.status = "UserAlreadyExistsError"

\* C1: refresh tokens are one-time-use: a refresh_access_token call that
\* presents an issued token for which the call before it has already
\* returned a pair fails with InvalidTokenError.
C1_RefreshTokenOneTimeUse ==
  (last.op = "refresh" /\ last.tok \in issued /\ last.snap.before)
    => last.status = "InvalidTokenError"

\* C3: of two overlapping refresh_access_token calls that present the same
\* token at most one returns a new pair.
C3_NoDoubleIssue ==
  ~(last.op = "refresh" /\ last.status = "ok" /\ last.snap.conc)

\* C5: with the revocation store available, a refresh_access_token call
\* that presents the token the logout handler was called with before fails.
C5_LogoutRevokesRefreshToken ==
  (last.op = "refresh" /\ last.tok \in issued /\ last.snap.out /\ cache = "ok")
    => last.status # "ok"

\* C4: with the store available, a token that was revoked while unexpired
\* is reported revoked at every later time before its expiry.
C4_RevokedUntilExpiry ==
  \A j \in Jtis :
    (cache = "ok" /\ revoked[j] >= 0 /\ ~is_expired([exp |-> revoked[j]], now))
      => is_token_blacklisted(j, cache, store, now)

GuardOps == {"get_current_user", "require_role", "require_any_role", "require_all_roles"}
RoleOps == {"require_role", "require_any_role", "require_all_roles"}

\* the call presented a correctly signed, unexpired, unrevoked access token
ValidAccess(c) ==
  /\ c.tok # NoToken
  /\ c.tok.sig = JWT_SECRET_KEY
  /\ c.tok.claims.type = "access"
  /\ ~c.snap.expired
  /\ ~c.snap.revoked

\* C6: the guard answers 401 to every token whose kind is not access, and
\* refresh_access_token raises InvalidTokenError, issuing nothing, for every
\* token whose kind is not refresh.
C6_TokenKindEnforced ==
  /\ (last.op \in GuardOps /\ last.tok # NoToken /\ last.tok.claims.type # "access")
       => (last.code = 401 /\ last.uid = 0)
  /\ (last.op = "refresh" /\ last.tok.claims.type # "refresh")
       => (last.status = "InvalidTokenError" /\ last.snap.minted = {})

\* an issued, unexpired refresh token of an active user was shown to the guard
C6_Witness ==
  /\ last.op = "get_current_user"
  /\ last.tok \in issued
  /\ last.tok.claims.type = "refresh"
  /\ ~last.snap.expired /\ last.snap.exists /\ last.snap.active
  /\ last.code = 401

\* what the three role predicates are to decide, on a role set
RolePredicate(op, names, roles) ==
  IF op = "require_any_role" THEN names \cap roles # {} ELSE names \subseteq roles

\* C7: a role predicate decides from the roles the user has in the store at
\* request time: it lets the request through only if they satisfy it, and
\* for a valid access token of an active user it answers 200 if they do and
\* 403 if they do not, whatever roles the token carries.
C7_RolesCheckedAtRequestTime ==
  last.op \in RoleOps =>
    /\ last.code = 200 => RolePredicate(last.op, last.roles, last.snap.dbRoles)
    /\ (ValidAccess(last) /\ last.snap.exists /\ last.snap.active) =>
         IF RolePredicate(last.op, last.roles, last.snap.dbRoles)
         THEN last.code = 200 /\ last.uid = int(last.tok.claims.sub)
         ELSE last.code = 403

\* a token issued while the user held a role is refused once the role is gone
C7_Witness ==
  /\ last.op = "require_role"
  /\ last.tok \in issued
  /\ ValidAccess(last) /\ last.snap.exists /\ last.snap.active
  /\ \E r \in last.roles :
       /\ r \in {last.tok.claims.roles[i] : i \in 1..Len(last.tok.claims.roles)}
       /\ r \notin last.snap.dbRoles
  /\ last.code = 403

\* C8: for a correctly signed, unexpired, unrevoked access token the guard
\* returns the user iff the subject is an existing active user at request
\* time; a missing user gets 401 and an inactive one 403.
C8_GuardResolvesLiveUser ==
  (last.op = "get_current_user" /\ ValidAccess(last)) =>
    IF last.snap.exists /\ last.snap.active
    THEN last.code = 200 /\ last.uid = int(last.tok.claims.sub)
    ELSE IF ~last.snap.exists
    THEN last.code = 401 /\ last.uid = 0
    ELSE last.code = 403 /\ last.detail = "User is inactive" /\ last.uid = 0

\* the user was deactivated after the token was issued
C8_Witness ==
  /\ last.op = "get_current_user"
  /\ last.tok \in issued
  /\ ValidAccess(last)
  /\ last.snap.exists /\ ~last.snap.active
  /\ last.code = 403

\* the login that just returned was for an unknown email, an inactive user
\* or a password other than the registered one
LoginMustFail(c) ==
  /\ c.op = "login"
  /\ \/ ~c.snap.exists
     \/ ~c.snap.active
     \/ (c.snap.reg # None /\ c.snap.reg # c.pw)

\* C9: login_user fails with the same InvalidCredentialsError (401, same
\* message) for an unknown email, an inactive user and a wrong password, and
\* the failing call issues no token and leaves every last_login as it was.
C9_LoginFailsUniformly ==
  [][LoginMustFail(last') =>
       /\ last'.status = "InvalidCredentialsError"
       /\ last'.code = 401
       /\ last'.detail = "Invalid email or password"
       /\ last'.snap.minted = {}
       /\ issued' = issued
       /\ users' = users]_vars

\* an inactive user presenting the registered password was turned away
C9_Witness ==
  /\ last.op = "login"
  /\ last.snap.exists /\ ~last.snap.active
  /\ last.snap.reg = last.pw
  /\ last.status = "InvalidCredentialsError"

\* C10 as stated: the registered, unchanged pair always authenticates.
C10_RegisteredPairAuthenticates ==
  (last.op = "login" /\ last.snap.reg # None /\ last.snap.reg = last.pw)
    => last.status = "ok"

\* C10: for every (email, password) registered through create_user and not
\* changed since, authentication with that pair succeeds and returns that
\* user as long as the user is active, and authentication with the email
\* and any other password fails.
C10_RegisteredActivePairAuthenticates ==
  (last.op = "login" /\ last.snap.reg # None) =>
    IF last.snap.reg = last.pw /\ last.snap.active
    THEN /\ last.status = "ok"
         /\ last.uid = id_by_email(users, last.email)
         /\ users[last.uid].email = last.email
    ELSE last.status = "InvalidCredentialsError" /\ last.uid = 0

\* the registered pair logged in
C10_Witness ==
  /\ last.op = "login"
  /\ last.snap.reg = last.pw /\ last.snap.active
  /\ last.status = "ok"
  /\ last.uid = id_by_email(users, last.email)

\* C11: change_user_password called with a current password other than the
\* one the account has raises InvalidCredentialsError and leaves the stored
\* hash (the whole users table) as it was, so that the account's password
\* still authenticates.
C11_WrongCurrentPasswordChangesNothing ==
  [][(/\ last'.op = "change_password"
      /\ last'.status # "HTTPException"
      /\ pwHist[last'.email].cur # last'.pw) =>
       /\ last'.status = "InvalidCredentialsError"
       /\ last'.detail = "Invalid current password"
       /\ users' = users
       /\ authenticate_user(users', last'.email, pwHist[last'.email].cur) = last'.uid]_vars

\* a password change with a wrong current password was refused
C11_Witness ==
  /\ last.op = "change_password"
  /\ last.status = "InvalidCredentialsError"
  /\ pwHist[last.email].cur # last.pw
  /\ authenticate_user(users, last.email, pwHist[last.email].cur) = last.uid

\* the login that just returned was for an account whose password has been
\* changed to a different one
AfterPasswordChange(c) ==
  c.op = "login" /\ c.snap.prev # None /\ c.snap.prev # c.snap.cur

\* C12 as stated: after a successful change the old password fails and the
\* new one succeeds, at every later login.
C12_NewPasswordReplacesOld ==
  AfterPasswordChange(last) =>
    /\ last.pw = last.snap.prev => last.status = "InvalidCredentialsError"
    /\ last.pw = last.snap.cur => last.status = "ok"

\* C12: after change_user_password succeeded with the correct current
\* password and a different new one, until the next successful change every
\* login with the old password fails, and a login with the new password
\* succeeds as long as the user is active.
C12_NewPasswordReplacesOldWhileActive ==
  AfterPasswordChange(last) =>
    /\ last.pw = last.snap.prev => last.status = "InvalidCredentialsError"
    /\ last.pw = last.snap.cur =>
         IF last.snap.active
         THEN last.status = "ok" /\ last.uid = id_by_email(users, last.email)
         ELSE last.status = "InvalidCredentialsError"

\* the new password logged in after a change
C12_Witness ==
  /\ AfterPasswordChange(last)
  /\ last.pw = last.snap.cur
  /\ last.snap.active
  /\ last.status = "ok"

\* C13: a refresh_access_token call that presents a correctly signed refresh
\* token whose exp has passed (the call begins and ends in one step) fails
\* with TokenExpiredError.
C13_ExpiredRefreshRaisesTokenExpired ==
  [][(/\ last'.op = "refresh"
      /\ proc' = proc
      /\ last'.tok \in issued
      /\ last'.tok.claims.type = "refresh"
      /\ is_expired(last'.tok.claims, now)) =>
       last'.status = "TokenExpiredError"]_vars

\* C14: decode_token of a correctly signed token whose exp is in the past
\* raises the expired-signature error when called with expiry verification
\* on, and with verify_exp off returns claims for which is_expired() is
\* true.
C14_DecodeHonoursVerifyExpiry ==
  (/\ last.op = "decode"
   /\ last.tok.sig = JWT_SECRET_KEY
   /\ last.snap.nowS > last.tok.claims.exp) =>
    IF "verify_exp" \in last.snap.kwargs
    THEN last.status = "ok" /\ is_expired(last.snap.payload, now)
    ELSE last.status = "ExpiredSignatureError"

\* the call presented a correctly signed, unexpired token of the given kind
\* whose subject is an existing active user
OtherwiseValid(c, kind) ==
  /\ c.tok # NoToken
  /\ c.tok.sig = JWT_SECRET_KEY
  /\ c.tok.claims.type = kind
  /\ ~c.snap.expired
  /\ c.snap.exists /\ c.snap.active

\* C15: while the revocation store is disabled or its operations raise, no
\* step writes to it, is_token_blacklisted returns False, blacklist_token
\* returns normally, and the guard and refresh_access_token succeed for an
\* otherwise valid token.
C15_StoreOutageFailsOpen ==
  [][cache # "ok" =>
       /\ store' = store
       /\ last'.op = "is_revoked" => last'.status = "False"
       /\ last'.op = "revoke" => last'.status = "ok"
       /\ (last'.op = "get_current_user" /\ OtherwiseValid(last', "access")) =>
            (last'.code = 200 /\ last'.uid = int(last'.tok.claims.sub))
       /\ (last'.op = "refresh" /\ OtherwiseValid(last', "refresh")) =>
            (last'.status = "ok" /\ last'.snap.minted # {})]_vars

\* a token with a revocation entry passed the guard while the client raised
C15_Witness ==
  /\ last.op = "get_current_user"
  /\ cache = "error"
  /\ last.tok.claims.jti # None
  /\ last.snap.revoked
  /\ last.code = 200

\* C16: with the store available, blacklist_token(jti, expires_at) called
\* while expires_at - now is positive stores the marker with exactly that
\* TTL, so that the entry lasts until expires_at.
C16_TtlIsRemainingLifetime ==
  (/\ last.op = "revoke"
   /\ cache = "ok"
   /\ last.code * TicksPerSec > now) =>
    store[last.email] = last.code * TicksPerSec

\* the entries the store still holds
LiveEntries == {j \in Jtis : key_exists(store, j, now)}

\* C17: every entry the store holds was written for a token whose exp has
\* not passed yet: entries are gone by their token's expiry with no explicit
\* deletion, so there are never more of them than revoked tokens still
\* within their lifetime.
C17_EntriesEndWithTheirToken ==
  /\ \A j \in LiveEntries :
       entryExp[j] >= 0 /\ ~is_expired([exp |-> entryExp[j]], now)
  /\ Cardinality(LiveEntries) <=
       Cardinality({j \in Jtis : entryExp[j] >= 0 /\ ~is_expired([exp |-> entryExp[j]], now)})

\* an entry written for a token is gone once the token has expired
C17_Witness ==
  \E j \in Jtis :
    /\ entryExp[j] >= 0
    /\ store[j] > 0
    /\ is_expired([exp |-> entryExp[j]], now)
    /\ j \notin LiveEntries

\* C18: with the store available, when refresh_access_token has created a
\* new pair for a presented token, the revocation of that token is on
\* record.
C18_RevokedBeforeIssued ==
  (/\ last.op = "refresh"
   /\ last.status = "ok"
   /\ last.tok \in issued
   /\ cache = "ok") =>
    last.snap.revoked

\* C19: the refresh token a successful refresh_access_token returns is
\* never the token that was presented.
C19_FreshTokenDiffersFromPresented ==
  (last.op = "refresh" /\ last.status = "ok" /\ last.tok \in issued) =>
    last.tok \notin last.snap.minted

SeqSet(q) == {q[i] : i \in 1..Len(q)}

\* a list of non-empty role names in strictly increasing order
SortedDistinct(q) ==
  /\ "" \notin SeqSet(q)
  /\ \A i, j \in 1..Len(q) : i < j => RoleRank(q[i]) < RoleRank(q[j])

\* what the round trip keeps besides the roles
RoundTripKeepsClaims(c) ==
  /\ c.op = "issue_access" =>
       /\ c.status = "ok"
       /\ c.snap.payload.sub = c.snap.sub
       /\ c.snap.payload.email = c.email
       /\ c.snap.payload.type = "access"
       /\ c.snap.payload.exp > c.snap.payload.iat
  /\ c.op = "issue_refresh" =>
       /\ c.status = "ok"
       /\ c.snap.payload.sub = c.snap.sub
       /\ c.snap.payload.type = "refresh"
       /\ c.snap.payload.email = None
       /\ c.snap.payload.roles = <<>>

C21_DuplicateEmailRejectedUnchanged ==
  [][(last'.op = "create_user" /\ last'.snap.before) =>
       /\ last'.status = "UserAlreadyExistsError"
       /\ users' = users
       /\ roleTable' = roleTable]_vars

\* a registration for a stored email was refused
C21_Witness ==
  /\ last.op = "create_user"
  /\ last.snap.before
  /\ last.status = "UserAlreadyExistsError"
  /\ get_by_email(users, last.email).present
  /\ get_by_email(users, last.email).roles = {DEFAULT_USER_ROLE}

\* C22: the user a successful create_user stores and returns is active, is
\* not a superuser and has exactly one role, DEFAULT_USER_ROLE; the role is
\* in the roles table afterwards, inserted by this call exactly when it was
\* not there before, and no other role is inserted.
C22_NewUserHasDefaultRoleOnly ==
  [][(last'.op = "create_user" /\ last'.status = "ok") =>
       /\ users'[last'.uid].present
       /\ users'[last'.uid].email = last'.email
       /\ users'[last'.uid].is_active
       /\ ~users'[last'.uid].is_superuser
       /\ users'[last'.uid].roles = {DEFAULT_USER_ROLE}
       /\ last'.roles = {DEFAULT_USER_ROLE}
       /\ DEFAULT_USER_ROLE \in roleTable'
       /\ roleTable' \ roleTable \subseteq {DEFAULT_USER_ROLE}
       /\ last'.snap.roleNew <=> DEFAULT_USER_ROLE \notin roleTable]_vars

\* the first registration created the default role for its user
C22_Witness ==
  /\ last.op = "create_user"
  /\ last.status = "ok"
  /\ last.snap.roleNew
  /\ users[last.uid].roles = {DEFAULT_USER_ROLE}
  /\ users[last.uid].is_active
  /\ DEFAULT_USER_ROLE \in roleTable

\* C23: get_or_create never fails: of two concurrent calls for a name that
\* both found it missing, the one whose INSERT comes second returns the
\* role the other one stored.
C23_GetOrCreateNeverFails ==
  ~(last.op = "create_user" /\ last.status = "PendingRollbackError")

\* C24: when the body of the unit of work returned and the COMMIT fails,
\* the session is rolled back next and the request ends with ConflictError
\* (409) for an IntegrityError and with ServiceUnavailableError (503) for
\* any other database error, nothing being committed; when the body raised,
\* the session is rolled back, commit is never called and the request ends
\* with an error; the request ends normally only when the COMMIT went
\* through.
C24_CommitFailureSurfacesAfterRollback ==
  last.op = "uow" =>
    /\ (last.snap.args[1] = "" /\ last.snap.args[2] # "ok") =>
         /\ last.status = (IF last.snap.args[2] = "IntegrityError"
                           THEN "ConflictError" ELSE "ServiceUnavailableError")
         /\ last.code = (IF last.snap.args[2] = "IntegrityError" THEN 409 ELSE 503)
         /\ Len(last.snap.calls) >= 2
         /\ last.snap.calls[1] = "commit" /\ last.snap.calls[2] = "rollback"
         /\ ~last.snap.committed
    /\ last.snap.args[1] # "" =>
         /\ "commit" \notin {last.snap.calls[i] : i \in 1..Len(last.snap.calls)}
         /\ Len(last.snap.calls) >= 1 /\ last.snap.calls[1] = "rollback"
         /\ last.status \in {last.snap.args[1], "ServiceUnavailableError"}
         /\ ~last.snap.committed
    /\ last.status = "ok" <=> last.snap.committed

\* a COMMIT that failed for a reason other than uniqueness, with the
\* ROLLBACK failing as well
C24_Witness ==
  /\ last.op = "uow"
  /\ last.snap.args = <<"", "OperationalError", "OperationalError">>
  /\ last.status = "ServiceUnavailableError"
  /\ last.snap.calls[2] = "rollback"

\* the token the refresh handler is to use when a cookie that is there,
\* whatever its value, goes first
TokenByPresence(args) == IF args[1].has THEN args[1].value ELSE args[2].value

\* the token the refresh handler is to use when a cookie with a non-empty
\* value goes first
TokenByValue(args) == IF truthy(args[1]) THEN args[1].value ELSE args[2].value

\* the refresh handler was entered with args and has called
\* refresh_access_token: the service is at work on a token or has returned
ServiceCalled(p) ==
  \/ proc[p].pc \in {"rf_blacklist", "rf_user", "rf_revoke", "rf_issue"} /\ proc[p].args # <<>>
  \/ last.op = "refresh" /\ last.snap.args # <<>>

C26_LogoutAlwaysSucceedsAndClearsCookie ==
  last.op = "logout" =>
    /\ last.status = "ok"
    /\ last.code = 200
    /\ last.detail = "Logged out successfully"
    /\ last.snap.calls = <<"delete_cookie">>

\* logout with an expired token that has a jti while the store raises
C26_Witness ==
  /\ last.op = "logout"
  /\ cache = "error"
  /\ last.tok.sig = JWT_SECRET_KEY
  /\ last.tok.claims.jti # None
  /\ last.snap.expired
  /\ last.code = 200
  /\ last.snap.calls = <<"delete_cookie">>

\* C27: a step that is a call of decode_token, of get_current_user or of a
\* role predicate, whatever it returns, leaves the users table (rows and
\* role memberships), the roles table and the revocation store as they
\* were.
C27_DecodeAndGuardChangeNothing ==
  [][last'.op \in GuardOps \cup {"decode"} =>
       /\ users' = users
       /\ roleTable' = roleTable
       /\ store' = store]_vars

\* a role predicate let a user through while the store held an entry
C27_Witness ==
  /\ last.op \in RoleOps
  /\ last.code = 200
  /\ users[last.uid].present
  /\ users[last.uid].roles # {}
  /\ \E j \in Jtis : key_exists(store, j, now)

\* C29: the step in which a refresh_access_token call fails changes neither
\* the revocation store nor the set of issued tokens and returns no token;
\* no step of a call that has not yet loaded its user changes them; and a
\* call that has revoked the presented token ends only by returning the new
\* pair for that token.
C29_FailedRefreshRevokesAndIssuesNothing ==
  [][/\ (last'.op = "refresh" /\ last'.status # "ok") =>
          (store' = store /\ issued' = issued /\ last'.snap.minted = {})
     /\ \A p \in Procs :
          /\ (proc[p].pc \in {"idle", "rf_blacklist", "rf_user"} /\ proc'[p].pc # proc[p].pc) =>
               (store' = store /\ issued' = issued)
          /\ (proc[p].pc = "rf_issue" /\ proc'[p].pc # "rf_issue") =>
               (last'.op = "refresh" /\ last'.status = "ok" /\ last'.tok = proc[p].tok)]_vars

\* a token with a jti was refused because its user is inactive, and the
\* store has no entry for it
C29_Witness ==
  /\ last.op = "refresh"
  /\ last.status = "InvalidTokenError"
  /\ last.tok.sig = JWT_SECRET_KEY
  /\ last.tok.claims.type = "refresh"
  /\ last.tok.claims.jti # None
  /\ last.snap.exists /\ ~last.snap.active
  /\ cache = "ok"
  /\ store[last.tok.claims.jti] = 0

\* C28: RequestSizeLimitMiddleware answers 413 without calling call_next
\* exactly when the Content-Length header is there, int() parses it and the
\* value is greater than max_size; in every other case (value at most
\* max_size, no header, empty header, not an integer) it calls call_next
\* once and returns the handler's response.
C28_TooLargeIffParsedLengthExceedsLimit ==
  last.op = "request_size" =>
    IF last.email \in DOMAIN IntOf /\ IntOf[last.email] > last.snap.max_size
    THEN last.code = 413 /\ last.snap.calls = <<>>
    ELSE last.code = last.snap.args[1] /\ last.snap.calls = <<"call_next">>

\* a request whose Content-Length is exactly max_size reached the handler
C28_Witness ==
  /\ last.op = "request_size"
  /\ last.email \in DOMAIN IntOf
  /\ IntOf[last.email] = last.snap.max_size
  /\ last.snap.calls = <<"call_next">>
  /\ last.code = 200

\* C30: CacheMiddleware.dispatch calls call_next at most once for a
\* request, whatever the adapter and the handler do.
C30_HandlerCalledAtMostOnce ==
  last.op = "cache_dispatch" => Len(last.snap.calls) <= 1

====
